---- MODULE Spec2Model ----
(***************************************************************************)
(* Model of hls4ml/backends/fpga/fpga_types.py: the dialect precision      *)
(* types (AP = "bounded-width", AC = "algorithmic"), the precision         *)
(* converters, the HLS type wrappers with their converter, and the         *)
(* variable representations.                                               *)
(*                                                                         *)
(* Objects are records.  Text is a sequence of string tokens; str.format   *)
(* and str.join are concatenation of token sequences.  A Python optional   *)
(* (None or a value) is the empty sequence or a one-element sequence.      *)
(* Object identity, where the code returns "the same object", is the id    *)
(* field, drawn from the allocation counter nextId.                        *)
(***************************************************************************)
EXTENDS Integers, Sequences, FiniteSets, TLC

\* ------------------------------------------------------------- bounds
MaxWidth == 2
MaxElem == 2
MaxPack == 2
MaxDim == 2
MaxDepth == 1
MaxObjects == 13

VARIABLES
    nextId,      \* next free object identity
    precision,   \* the precision object in hand
    pcall,       \* the last precision-converter call: converter, arg, ret, raised
    hlstype,     \* the type object in hand
    tcall,       \* the last type-converter call
    variable,    \* the variable object in hand
    vcall,       \* the last variable constructor / from_variable call
    rendered,    \* the last definition_cpp() text and what it was rendered from
    legacy_str   \* which text the base classes' __str__ produces (see PrecisionStr)

vars == <<nextId, precision, pcall, hlstype, tcall, variable, vcall, rendered, legacy_str>>

None == <<>>
Some(v) == <<v>>
IsNone(o) == Len(o) = 0

Dialects == {"AP", "AC"}

\* ------------------------------------------------------------- text
\* str(int), str(bool).lower()
StrInt(n) == ToString(n)
StrBoolLower(b) == IF b THEN "true" ELSE "false"

RECURSIVE Join(_, _)
\* sep.join(args): args is a sequence of texts
Join(args, sep) ==
    IF Len(args) = 0 THEN <<>>
    ELSE IF Len(args) = 1 THEN args[1]
    ELSE args[1] \o sep \o Join(Tail(args), sep)

RECURSIVE DropNone(_)
\* [str(arg) for arg in args if arg is not None]: args is a sequence of optionals
DropNone(args) ==
    IF Len(args) = 0 THEN <<>>
    ELSE IF IsNone(args[1]) THEN DropNone(Tail(args))
    ELSE <<args[1][1]>> \o DropNone(Tail(args))

\* ------------------------------------------------------------- precision objects
\* tag is the class-name prefix ("" for the abstract hls_types classes),
\* kind the abstract class the object's class derives from.
Prec(tag, kind, id, width, integer, signed, rm, sm, sb) ==
    [tag |-> tag, kind |-> kind, id |-> id, width |-> width, integer |-> integer,
     signed |-> signed, rounding_mode |-> rm, saturation_mode |-> sm,
     saturation_bits |-> sb]

NoPrec == Prec("", "Null", 0, 0, 0, FALSE, None, None, None)

\* Constructors of the hls_types base classes, reached through cls(...).
IntegerPrecisionType(tag, id, width, signed) ==
    Prec(tag, "Integer", id, width, width, signed, None, None, None)

FixedPrecisionType(tag, id, width, integer, signed, rm, sm, sb) ==
    Prec(tag, "Fixed", id, width, integer, signed, rm, sm, sb)

XnorPrecisionType(tag, id) ==
    Prec(tag, "Xnor", id, 1, 1, FALSE, None, None, None)

ExponentPrecisionType(tag, id, width, signed) ==
    Prec(tag, "Exponent", id, width, width, signed, None, None, None)

\* type(p).__name__ as <<prefix, rest>>, and str.startswith on it
ClassName(p) == <<p.tag, p.kind \o "PrecisionType">>
StartsWith(name, prefix) == name[1] = prefix

\* type_cls == XnorPrecisionType etc.: identity of the class, so a subclass
\* (any dialect class) is not equal to its abstract base.
TypeIs(p, kind) == p.tag = "" /\ p.kind = kind

\* from_precision of the eight dialect classes
Integer_from_precision(tag, p, id) ==
    IntegerPrecisionType(tag, id, p.width, p.signed)

Fixed_from_precision(tag, p, id) ==
    FixedPrecisionType(tag, id, p.width, p.integer, p.signed,
                       p.rounding_mode, p.saturation_mode, p.saturation_bits)

Xnor_from_precision(tag, p, id) ==
    XnorPrecisionType(tag, id)

Exponent_from_precision(tag, p, id) ==
    ExponentPrecisionType(tag, id, p.width, p.signed)

\* ------------------------------------------------------------- leaf renderers
APInteger_definition_cpp(p) ==
    <<"ap_">> \o (IF ~p.signed THEN <<"u">> ELSE <<>>) \o <<"int", "<", StrInt(p.width), ">">>

AP_rounding_mode_cpp(mode) ==
    IF ~IsNone(mode) THEN Some(<<"AP_", mode[1]>>) ELSE None

AP_saturation_mode_cpp(mode) ==
    IF ~IsNone(mode) THEN Some(<<"AP_", mode[1]>>) ELSE None

OptInt(o) == IF IsNone(o) THEN None ELSE Some(<<StrInt(o[1])>>)

\* Mutant: the None entries are formatted instead of dropped.
APFixed_args_KeepNone(p) ==
    LET shown(o) == IF IsNone(o) THEN <<"None">> ELSE o[1] IN
    << <<StrInt(p.width)>>, <<StrInt(p.integer)>>,
       shown(AP_rounding_mode_cpp(p.rounding_mode)),
       shown(AP_saturation_mode_cpp(p.saturation_mode)),
       shown(OptInt(p.saturation_bits)) >>

APFixed_args(p) ==
    DropNone(<< Some(<<StrInt(p.width)>>), Some(<<StrInt(p.integer)>>),
                AP_rounding_mode_cpp(p.rounding_mode),
                AP_saturation_mode_cpp(p.saturation_mode),
                OptInt(p.saturation_bits) >>)

APFixed_definition_cpp(p) ==
    <<"ap_">> \o (IF ~p.signed THEN <<"u">> ELSE <<>>) \o <<"fixed", "<">>
        \o Join(APFixed_args(p), <<",">>) \o <<">">>

ACInteger_definition_cpp(p) ==
    <<"ac_int", "<", StrInt(p.width), ", ", StrBoolLower(p.signed), ">">>

AC_rounding_mode_cpp(mode) ==
    IF ~IsNone(mode) THEN Some(<<"AC_", mode[1]>>) ELSE None

AC_saturation_mode_cpp(mode) ==
    IF ~IsNone(mode) THEN Some(<<"AC_", mode[1]>>) ELSE None

ACFixed_args(p) ==
    DropNone(<< Some(<<StrInt(p.width)>>), Some(<<StrInt(p.integer)>>),
                Some(<<StrBoolLower(p.signed)>>),
                AC_rounding_mode_cpp(p.rounding_mode),
                AC_saturation_mode_cpp(p.saturation_mode),
                OptInt(p.saturation_bits) >>)

ACFixed_definition_cpp(p) ==
    <<"ac_fixed", "<">> \o Join(ACFixed_args(p), <<",">>) \o <<">">>

\* p.definition_cpp() of a dialect precision: Xnor and Exponent classes bind
\* the Integer class's definition_cpp.
definition_cpp(p) ==
    IF p.tag = "AP"
    THEN (IF p.kind = "Fixed" THEN APFixed_definition_cpp(p) ELSE APInteger_definition_cpp(p))
    ELSE (IF p.kind = "Fixed" THEN ACFixed_definition_cpp(p) ELSE ACInteger_definition_cpp(p))

\* ------------------------------------------------------------- precision converters
Returned(v, nid) == [ret |-> v, raised |-> FALSE, nid |-> nid]
Raised(null, nid) == [ret |-> null, raised |-> TRUE, nid |-> nid]

\* Mutant: no pass-through of an already converted precision.
APTypeConverter_convert_NoPassThrough(p, nid) ==
    IF TypeIs(p, "Xnor") THEN Returned(Xnor_from_precision("AP", p, nid), nid + 1)
    ELSE IF TypeIs(p, "Integer") THEN Returned(Integer_from_precision("AP", p, nid), nid + 1)
    ELSE IF TypeIs(p, "Exponent") THEN Returned(Exponent_from_precision("AP", p, nid), nid + 1)
    ELSE IF TypeIs(p, "Fixed") THEN Returned(Fixed_from_precision("AP", p, nid), nid + 1)
    ELSE Raised(NoPrec, nid)

APTypeConverter_convert(p, nid) ==
    IF StartsWith(ClassName(p), "AP") THEN Returned(p, nid)
    ELSE IF TypeIs(p, "Xnor") THEN Returned(Xnor_from_precision("AP", p, nid), nid + 1)
    ELSE IF TypeIs(p, "Integer") THEN Returned(Integer_from_precision("AP", p, nid), nid + 1)
    ELSE IF TypeIs(p, "Exponent") THEN Returned(Exponent_from_precision("AP", p, nid), nid + 1)
    ELSE IF TypeIs(p, "Fixed") THEN Returned(Fixed_from_precision("AP", p, nid), nid + 1)
    ELSE Raised(NoPrec, nid)

\* Mutant: dispatch by isinstance, so a subclass of an abstract kind matches.
ACTypeConverter_convert_IsInstance(p, nid) ==
    IF StartsWith(ClassName(p), "AC") THEN Returned(p, nid)
    ELSE IF p.kind = "Xnor" THEN Returned(Xnor_from_precision("AC", p, nid), nid + 1)
    ELSE IF p.kind = "Integer" THEN Returned(Integer_from_precision("AC", p, nid), nid + 1)
    ELSE IF p.kind = "Exponent" THEN Returned(Exponent_from_precision("AC", p, nid), nid + 1)
    ELSE IF p.kind = "Fixed" THEN Returned(Fixed_from_precision("AC", p, nid), nid + 1)
    ELSE Raised(NoPrec, nid)

ACTypeConverter_convert(p, nid) ==
    IF StartsWith(ClassName(p), "AC") THEN Returned(p, nid)
    ELSE IF TypeIs(p, "Xnor") THEN Returned(Xnor_from_precision("AC", p, nid), nid + 1)
    ELSE IF TypeIs(p, "Integer") THEN Returned(Integer_from_precision("AC", p, nid), nid + 1)
    ELSE IF TypeIs(p, "Exponent") THEN Returned(Exponent_from_precision("AC", p, nid), nid + 1)
    ELSE IF TypeIs(p, "Fixed") THEN Returned(Fixed_from_precision("AC", p, nid), nid + 1)
    ELSE Raised(NoPrec, nid)

\* precision_converter.convert(p) for the converter of dialect D
convert(D, p, nid) ==
    IF D = "AP" THEN APTypeConverter_convert(p, nid) ELSE ACTypeConverter_convert(p, nid)

\* ------------------------------------------------------------- __str__ of a precision
\* str(p): no class of fpga_types.py defines __str__, so a dialect precision
\* and an abstract one both format by the __str__ of the abstract base class in
\* hls4ml.model.hls_types.  That text is fixed by the installed hls_types, not
\* by fpga_types.py: either the backend-neutral form ("uint<W>", "fixed<W,I>")
\* or the older Vivado form ("ap_uint<W>", "ap_fixed<W,I>").  legacy_str is
\* TRUE for the older form.  In neither form does it depend on the dialect of
\* the converter in use.
PrecisionStr(p, legacy) ==
    LET lead == IF legacy THEN <<"ap_">> ELSE <<>>
        u == IF ~p.signed THEN <<"u">> ELSE <<>>
        opt(o) == IF IsNone(o) THEN None ELSE Some(<<o[1]>>)
    IN IF p.kind = "Fixed"
       THEN lead \o u \o <<"fixed", "<">>
              \o Join(DropNone(<< Some(<<StrInt(p.width)>>), Some(<<StrInt(p.integer)>>),
                                  opt(p.rounding_mode), opt(p.saturation_mode),
                                  OptInt(p.saturation_bits) >>), <<",">>)
              \o <<">">>
       ELSE lead \o u \o <<"int", "<", StrInt(p.width), ">">>

\* ------------------------------------------------------------- type objects
Type(cls, name, prec, index_precision, n_elem, n_pack, unpack) ==
    [cls |-> cls, name |-> name, precision |-> prec, index_precision |-> index_precision,
     n_elem |-> n_elem, n_pack |-> n_pack, unpack |-> unpack]

NoType == Type("Null", "", NoPrec, NoPrec, 0, 0, FALSE)

\* Constructors of the hls_types base classes, reached through cls(...).
NamedType(cls, name, prec) ==
    Type(cls, name, prec, NoPrec, 0, 0, FALSE)

CompressedType(cls, name, prec, index_precision) ==
    Type(cls, name, prec, index_precision, 0, 0, FALSE)

ExponentType(cls, name, prec) ==
    Type(cls, name, prec, NoPrec, 0, 0, FALSE)

\* PackedType(name, precision, n_elem, n_pack) takes no unpack argument: a
\* negative n_pack asks for unpacking and is stored as its magnitude.
PackedType(cls, name, prec, n_elem, n_pack) ==
    IF n_pack < 0
    THEN Type(cls, name, prec, NoPrec, n_elem, -n_pack, TRUE)
    ELSE Type(cls, name, prec, NoPrec, n_elem, n_pack, FALSE)

\* isinstance(t, base): the HLS class of each shape derives from the shape, and
\* every shape derives from NamedType.
IsInstance(t, base) ==
    \/ t.cls \in {base, "HLS" \o base}
    \/ base = "NamedType" /\ t.cls \in {"NamedType", "HLSType", "CompressedType", "HLSCompressedType",
                                        "ExponentType", "HLSExponentType", "PackedType", "HLSPackedType"}

HLSClasses == {"HLSType", "HLSCompressedType", "HLSExponentType", "HLSPackedType"}

\* ------------------------------------------------------------- type wrappers
HLSType_definition_cpp(t) ==
    <<"typedef ">> \o definition_cpp(t.precision) \o <<" ", t.name, ";\n">>

HLSType_from_type(t, D, nid) ==
    LET r == convert(D, t.precision, nid) IN
    IF r.raised THEN Raised(NoType, r.nid)
    ELSE Returned(NamedType("HLSType", t.name, r.ret), r.nid + 1)

HLSCompressedType_definition_cpp(t, legacy) ==
    <<"typedef struct ", t.name, " {">>
        \o PrecisionStr(t.index_precision, legacy) \o <<" row_index;">>
        \o PrecisionStr(t.index_precision, legacy) \o <<" col_index;">>
        \o definition_cpp(t.precision) \o <<" weight; } ", t.name, ";\n">>

HLSCompressedType_from_type(t, D, nid) ==
    LET r == convert(D, t.precision, nid) IN
    IF r.raised THEN Raised(NoType, r.nid)
    ELSE Returned(CompressedType("HLSCompressedType", t.name, r.ret, t.index_precision), r.nid + 1)

HLSExponentType_definition_cpp(t, legacy) ==
    <<"typedef struct ", t.name, " {">>
        \o PrecisionStr(XnorPrecisionType("", 0), legacy) \o <<" sign;">>
        \o definition_cpp(t.precision) \o <<" weight; } ", t.name, ";\n">>

HLSExponentType_from_type(t, D, nid) ==
    LET r == convert(D, t.precision, nid) IN
    IF r.raised THEN Raised(NoType, r.nid)
    ELSE Returned(ExponentType("HLSExponentType", t.name, r.ret), r.nid + 1)

HLSPackedType_definition_cpp(t) ==
    LET n_elem_expr == IF t.unpack THEN "/" ELSE "*" IN
    <<"typedef nnet::array<">> \o definition_cpp(t.precision)
        \o <<", ", StrInt(t.n_elem), n_elem_expr, StrInt(t.n_pack), "> ", t.name, ";\n">>

HLSPackedType_from_type(t, D, nid) ==
    LET r == convert(D, t.precision, nid) IN
    IF r.raised THEN Raised(NoType, r.nid)
    ELSE Returned(PackedType("HLSPackedType", t.name, r.ret, t.n_elem, t.n_pack), r.nid + 1)

\* HLSTypeConverter(precision_converter).convert(type), D the converter's dialect
HLSTypeConverter_convert(D, t, nid) ==
    IF IsInstance(t, "PackedType") THEN HLSPackedType_from_type(t, D, nid)
    ELSE IF IsInstance(t, "CompressedType") THEN HLSCompressedType_from_type(t, D, nid)
    ELSE IF IsInstance(t, "ExponentType") THEN HLSExponentType_from_type(t, D, nid)
    ELSE IF IsInstance(t, "NamedType") THEN HLSType_from_type(t, D, nid)
    ELSE Raised(NoType, nid)

\* t.definition_cpp() of an HLS type
Type_definition_cpp(t, legacy) ==
    IF t.cls = "HLSPackedType" THEN HLSPackedType_definition_cpp(t)
    ELSE IF t.cls = "HLSCompressedType" THEN HLSCompressedType_definition_cpp(t, legacy)
    ELSE IF t.cls = "HLSExponentType" THEN HLSExponentType_definition_cpp(t, legacy)
    ELSE HLSType_definition_cpp(t)

\* ------------------------------------------------------------- variable objects
Var(cls, id, shape, dim_names, name, type, pragma, struct_name, member_name, weight_class, data_length, quantizer) ==
    [cls |-> cls, id |-> id, shape |-> shape, dim_names |-> dim_names, name |-> name,
     cppname |-> name, type |-> type, pragma |-> pragma, struct_name |-> struct_name,
     member_name |-> member_name, weight_class |-> weight_class,
     data_length |-> data_length, quantizer |-> quantizer]

NoPragma == [name |-> "", depth |-> 0]

NoVar == Var("Null", 0, <<>>, <<>>, "", NoType, NoPragma, "", "", "", 0, None)

\* Constructors of the hls_types base classes, reached through super().__init__
\* and cls(...): each builds the variable's NamedType from type_name and
\* precision.
TensorVariable(cls, id, shape, dim_names, var_name, type_name, prec) ==
    Var(cls, id, shape, dim_names, var_name, NamedType("NamedType", type_name, prec),
        NoPragma, "", "", "", 0, None)

WeightVariable(cls, id, var_name, type_name, prec, data_length, quantizer) ==
    Var(cls, id, <<>>, <<>>, var_name, NamedType("NamedType", type_name, prec),
        NoPragma, "", "", "", data_length, quantizer)

TensorClasses == {"TensorVariable", "ArrayVariable", "VivadoArrayVariable",
                  "QuartusArrayVariable", "StructMemberVariable", "StreamVariable"}
ArrayClasses == {"ArrayVariable", "VivadoArrayVariable", "QuartusArrayVariable"}
WeightClasses == {"WeightVariable", "StaticWeightVariable", "BramWeightVariable"}

\* ------------------------------------------------------------- array variables
\* cls(tensor_var, type_converter, pragma) for ArrayVariable and its subclasses;
\* the variable, its NamedType, the converted precision and the HLS type are
\* allocated in turn.
ArrayVariable_init(cls, tensor_var, D, pragma, nid) ==
    LET self == TensorVariable(cls, nid, tensor_var.shape, tensor_var.dim_names,
                               tensor_var.name, tensor_var.type.name,
                               tensor_var.type.precision)
        r == HLSTypeConverter_convert(D, self.type, nid + 2)
    IN IF r.raised THEN Raised(NoVar, r.nid)
       ELSE Returned([self EXCEPT !.type = r.ret,
                                  !.pragma = [name |-> pragma, depth |-> 0]], r.nid)

size_cpp(v) == Join([i \in 1..Len(v.dim_names) |-> <<v.dim_names[i]>>], <<"*">>)

ArrayVariable_from_variable(cls, tensor_var, D, pragma, nid) ==
    ArrayVariable_init(cls, tensor_var, D, pragma, nid)

VivadoArrayVariable_definition_cpp(v, name_suffix) ==
    <<v.type.name, " ", v.cppname, name_suffix, "[">> \o size_cpp(v) \o <<"]">>

QuartusArrayVariable_definition_cpp(v, name_suffix) ==
    <<v.type.name, " ", v.cppname, name_suffix, "[">> \o size_cpp(v) \o <<"] ", v.pragma.name>>

\* ------------------------------------------------------------- struct members
\* struct_name is an optional: None when the caller passes nothing.  The
\* assert runs after the ArrayVariable part of the object is built.
StructMemberVariable_init(tensor_var, D, pragma, struct_name, nid) ==
    LET r == ArrayVariable_init("StructMemberVariable", tensor_var, D, pragma, nid) IN
    IF r.raised THEN r
    ELSE IF IsNone(struct_name) THEN Raised(NoVar, r.nid)
    ELSE Returned([r.ret EXCEPT !.struct_name = struct_name[1],
                                !.member_name = r.ret.name,
                                !.name = struct_name[1] \o "." \o r.ret.name], r.nid)

StructMemberVariable_definition_cpp(v, name_suffix) ==
    <<v.type.name, " ", v.member_name, name_suffix, "[">> \o size_cpp(v) \o <<"]">>

StructMemberVariable_from_variable(tensor_var, D, pragma, struct_name, nid) ==
    IF tensor_var.cls = "StructMemberVariable" THEN Returned(tensor_var, nid)
    ELSE StructMemberVariable_init(tensor_var, D, pragma, struct_name, nid)

\* ------------------------------------------------------------- streams
RECURSIVE np_prod(_)
\* np.prod(shape); the dimensions of the model stay far below the int64 range
np_prod(shape) == IF Len(shape) = 0 THEN 1 ELSE Head(shape) * np_prod(Tail(shape))

\* a // b on a numpy integer: a zero divisor gives 0 and a RuntimeWarning, not
\* an exception (numpy's default error state, which the module does not change)
np_floor_divide(a, b) == IF b = 0 THEN 0 ELSE a \div b

\* Mutant: the product of the shape is taken as the depth, undivided.
StreamDepth_NoDivide(shape, depth) ==
    IF depth = 0 THEN np_prod(shape) ELSE depth

\* the depth put into the pragma
StreamDepth(shape, depth) ==
    IF depth = 0 THEN np_floor_divide(np_prod(shape), shape[Len(shape)]) ELSE depth

StreamVariable_init(tensor_var, D, n_pack, depth, nid) ==
    LET self == TensorVariable("StreamVariable", nid, tensor_var.shape, tensor_var.dim_names,
                               tensor_var.name, tensor_var.type.name,
                               tensor_var.type.precision)
    IN IF Len(self.shape) = 0 THEN Raised(NoVar, nid + 2)
       ELSE LET packed == PackedType("PackedType", self.type.name, self.type.precision,
                                     self.shape[Len(self.shape)], n_pack)
                r == HLSTypeConverter_convert(D, packed, nid + 3)
            IN IF r.raised THEN Raised(NoVar, r.nid)
               ELSE Returned([self EXCEPT !.type = r.ret,
                                          !.pragma = [name |-> "stream",
                                                      depth |-> StreamDepth(self.shape, depth)]],
                             r.nid)

StreamVariable_definition_cpp(v, name_suffix, as_reference) ==
    IF as_reference
    THEN <<"hls::stream<", v.type.name, "> &", v.cppname, name_suffix>>
    ELSE <<"hls::stream<", v.type.name, "> ", v.cppname, name_suffix, "(\"", v.cppname, "\")">>

StreamVariable_from_variable(tensor_var, D, n_pack, depth, nid) ==
    IF tensor_var.cls = "StreamVariable" THEN Returned(tensor_var, nid)
    ELSE StreamVariable_init(tensor_var, D, n_pack, depth, nid)

\* ------------------------------------------------------------- weights
StaticWeightVariable_init(weight_var, D, nid) ==
    LET self == WeightVariable("StaticWeightVariable", nid, weight_var.name,
                               weight_var.type.name, weight_var.type.precision,
                               weight_var.data_length, None)
        r == HLSTypeConverter_convert(D, self.type, nid + 2)
    IN IF r.raised THEN Raised(NoVar, r.nid)
       ELSE Returned([self EXCEPT !.weight_class = weight_var.cls, !.type = r.ret], r.nid)

StaticWeightVariable_definition_cpp(v) ==
    <<v.type.name, " ", v.cppname, "[", StrInt(v.data_length), "]">>

StaticWeightVariable_from_variable(weight_var, D, nid) ==
    IF weight_var.cls = "StaticWeightVariable" THEN Returned(weight_var, nid)
    ELSE StaticWeightVariable_init(weight_var, D, nid)

BramWeightVariable_from_variable(weight_var, nid) ==
    IF weight_var.cls = "BramWeightVariable" THEN Returned(weight_var, nid)
    ELSE Returned(WeightVariable("BramWeightVariable", nid, weight_var.name,
                                 weight_var.type.name, weight_var.type.precision,
                                 weight_var.data_length, weight_var.quantizer), nid + 2)

\* v.definition_cpp(name_suffix, as_reference) of the classes that define it
Variable_definition_cpp(v, name_suffix, as_reference) ==
    IF v.cls = "VivadoArrayVariable" THEN VivadoArrayVariable_definition_cpp(v, name_suffix)
    ELSE IF v.cls = "QuartusArrayVariable" THEN QuartusArrayVariable_definition_cpp(v, name_suffix)
    ELSE IF v.cls = "StructMemberVariable" THEN StructMemberVariable_definition_cpp(v, name_suffix)
    ELSE IF v.cls = "StreamVariable" THEN StreamVariable_definition_cpp(v, name_suffix, as_reference)
    ELSE StaticWeightVariable_definition_cpp(v)

RenderableClasses == {"VivadoArrayVariable", "QuartusArrayVariable", "StructMemberVariable",
                      "StreamVariable", "StaticWeightVariable"}

\* ------------------------------------------------------------- upstream inputs
Modes == {None, Some("RND")}
SatModes == {None, Some("SAT")}

\* The abstract precisions the upstream IR hands over.  "Float" stands for a
\* precision class outside the four recognised ones.
AbstractPrecisions ==
    { IntegerPrecisionType("", 1, w, s) : w \in 1..MaxWidth, s \in BOOLEAN }
    \cup { ExponentPrecisionType("", 1, w, s) : w \in 1..MaxWidth, s \in BOOLEAN }
    \cup { XnorPrecisionType("", 1) }
    \cup { Prec("", "Float", 1, MaxWidth, 0, TRUE, None, None, None) }
    \cup UNION { { FixedPrecisionType("", 1, w, i, s, rm, sm, sb) :
                     i \in 0..w, s \in BOOLEAN, rm \in Modes,
                     sb \in (IF IsNone(sm) THEN {None} ELSE {None, Some(0)}) }
                 : w \in 1..MaxWidth, sm \in SatModes }

\* The precisions the upstream IR puts into types and variables.
SamplePrecisions ==
    { IntegerPrecisionType("", 1, MaxWidth, TRUE),
      FixedPrecisionType("", 1, MaxWidth, 1, TRUE, None, None, None),
      FixedPrecisionType("", 1, MaxWidth, 1, FALSE, Some("RND"), Some("SAT"), Some(0)),
      XnorPrecisionType("", 1),
      ExponentPrecisionType("", 1, MaxWidth, FALSE),
      Prec("", "Float", 1, MaxWidth, 0, TRUE, None, None, None) }

IndexPrecisions == { IntegerPrecisionType("", 2, MaxWidth, s) : s \in BOOLEAN }

PackFactors == (-MaxPack..MaxPack) \ {0}

\* The types the upstream IR hands over; "object" is a value that is no NamedType.
UpstreamTypes ==
    { NamedType("NamedType", "t", p) : p \in SamplePrecisions }
    \cup { ExponentType("ExponentType", "t", p) : p \in SamplePrecisions }
    \cup { CompressedType("CompressedType", "t", p, ip) : p \in SamplePrecisions, ip \in IndexPrecisions }
    \cup { PackedType("PackedType", "t", p, n, k) :
              p \in SamplePrecisions, n \in 1..MaxElem, k \in PackFactors }
    \cup { NamedType("object", "t", NoPrec) }

\* The precisions of the variables the upstream IR hands over.
VariablePrecisions ==
    { FixedPrecisionType("", 1, MaxWidth, 1, TRUE, None, None, None),
      Prec("", "Float", 1, MaxWidth, 0, TRUE, None, None, None) }

Shapes == { <<n>> : n \in 0..MaxDim } \cup { <<m, n>> : m, n \in 0..MaxDim }

DimNames(shape) == [i \in 1..Len(shape) |-> "N_" \o StrInt(i)]

\* The tensor and weight variables the upstream IR hands over.
UpstreamTensors ==
    { TensorVariable("TensorVariable", 2, sh, DimNames(sh), "x", "x_t", p) :
        sh \in Shapes, p \in VariablePrecisions }

UpstreamWeights ==
    { WeightVariable("WeightVariable", 2, "w", "w_t", p, MaxElem, q) :
        p \in VariablePrecisions, q \in {None, Some("quant")} }

Pragmas == {"partition", "hls_register"}
StructNames == {None, Some(""), Some("inputs")}
ExplicitDepths == 0..MaxDepth
StreamPacks == {1, -MaxPack}
Suffixes == {"", "_out"}

NoPCall == [conv |-> "", arg |-> NoPrec, ret |-> NoPrec, raised |-> FALSE]
NoTCall == [D |-> "", arg |-> NoType, ret |-> NoType, raised |-> FALSE]
NoVCall == [op |-> "", cls |-> "", arg |-> NoVar, ret |-> NoVar, raised |-> FALSE,
            struct_name |-> None, depth |-> 0]
NoText == [of |-> "none", text |-> <<>>, name_suffix |-> ""]

\* Every call allocates at most five objects (a variable, its NamedType, a
\* PackedType, a converted precision, an HLS type); a call is made only when
\* the heap has room for them.
HasRoom == nextId + 4 <= MaxObjects

Init ==
    /\ nextId = 1
    /\ precision = NoPrec
    /\ pcall = NoPCall
    /\ hlstype = NoType
    /\ tcall = NoTCall
    /\ variable = NoVar
    /\ vcall = NoVCall
    /\ rendered = NoText
    /\ legacy_str \in BOOLEAN

\* A run starts with the upstream IR handing over one object; nothing has been
\* allocated before (nextId = 1).
\* The upstream IR hands over an abstract precision.
UpstreamPrecision ==
    \E p \in AbstractPrecisions :
        /\ nextId = 1
        /\ precision' = p
        /\ nextId' = 2
        /\ pcall' = NoPCall
        /\ hlstype' = NoType
        /\ tcall' = NoTCall
        /\ variable' = NoVar
        /\ vcall' = NoVCall
        /\ rendered' = NoText
        /\ UNCHANGED legacy_str

\* D's converter is applied to the precision in hand.
ConvertPrecision ==
    \E D \in Dialects :
        /\ precision # NoPrec
        /\ HasRoom
        /\ LET r == convert(D, precision, nextId) IN
            /\ pcall' = [conv |-> D, arg |-> precision, ret |-> r.ret, raised |-> r.raised]
            /\ precision' = (IF r.raised THEN precision ELSE r.ret)
            /\ nextId' = r.nid
        /\ rendered' = NoText
        /\ UNCHANGED <<hlstype, tcall, variable, vcall, legacy_str>>

\* definition_cpp() of the dialect precision in hand.
RenderPrecision ==
    /\ precision.tag \in Dialects
    /\ rendered' = [of |-> "precision", text |-> definition_cpp(precision), name_suffix |-> ""]
    /\ UNCHANGED <<nextId, precision, pcall, hlstype, tcall, variable, vcall, legacy_str>>

\* The upstream IR hands over a type (with its precision and, for a
\* compressed type, its index precision).
UpstreamType ==
    \E t \in UpstreamTypes :
        /\ nextId = 1
        /\ hlstype' = t
        /\ nextId' = 4
        /\ tcall' = NoTCall
        /\ precision' = NoPrec
        /\ pcall' = NoPCall
        /\ variable' = NoVar
        /\ vcall' = NoVCall
        /\ rendered' = NoText
        /\ UNCHANGED legacy_str

\* The type converter built on D's precision converter is applied to the type
\* in hand.
ConvertType ==
    \E D \in Dialects :
        /\ hlstype # NoType
        /\ HasRoom
        /\ LET r == HLSTypeConverter_convert(D, hlstype, nextId) IN
            /\ tcall' = [D |-> D, arg |-> hlstype, ret |-> r.ret, raised |-> r.raised]
            /\ hlstype' = (IF r.raised THEN hlstype ELSE r.ret)
            /\ nextId' = r.nid
        /\ rendered' = NoText
        /\ UNCHANGED <<precision, pcall, variable, vcall, legacy_str>>

\* definition_cpp() of the HLS type in hand.
RenderType ==
    /\ hlstype.cls \in HLSClasses
    /\ rendered' = [of |-> "type", text |-> Type_definition_cpp(hlstype, legacy_str),
                    name_suffix |-> ""]
    /\ UNCHANGED <<nextId, precision, pcall, hlstype, tcall, variable, vcall, legacy_str>>

\* The upstream IR hands over a tensor variable (precision, type, variable).
UpstreamTensor ==
    \E v \in UpstreamTensors :
        /\ nextId = 1
        /\ variable' = v
        /\ nextId' = 4
        /\ vcall' = NoVCall
        /\ precision' = NoPrec
        /\ pcall' = NoPCall
        /\ hlstype' = NoType
        /\ tcall' = NoTCall
        /\ rendered' = NoText
        /\ UNCHANGED legacy_str

\* The upstream IR hands over a weight variable.
UpstreamWeight ==
    \E v \in UpstreamWeights :
        /\ nextId = 1
        /\ variable' = v
        /\ nextId' = 4
        /\ vcall' = NoVCall
        /\ precision' = NoPrec
        /\ pcall' = NoPCall
        /\ hlstype' = NoType
        /\ tcall' = NoTCall
        /\ rendered' = NoText
        /\ UNCHANGED legacy_str

\* The outcome r of the call op of class cls on the variable in hand.
Called(op, cls, r, struct_name, depth) ==
    /\ vcall' = [op |-> op, cls |-> cls, arg |-> variable, ret |-> r.ret, raised |-> r.raised,
                 struct_name |-> struct_name, depth |-> depth]
    /\ variable' = (IF r.raised THEN variable ELSE r.ret)
    /\ nextId' = r.nid
    /\ rendered' = NoText
    /\ UNCHANGED <<precision, pcall, hlstype, tcall, legacy_str>>

\* cls.from_variable(variable, converter, pragma) for the array classes
ArrayFromVariable ==
    \E cls \in ArrayClasses, D \in Dialects, pragma \in Pragmas :
        /\ variable.cls \in TensorClasses
        /\ HasRoom
        /\ Called("from_variable", cls,
                  ArrayVariable_from_variable(cls, variable, D, pragma, nextId), None, 0)

\* StructMemberVariable(variable, converter, struct_name=...)
StructMemberInit ==
    \E D \in Dialects, struct_name \in StructNames :
        /\ variable.cls \in TensorClasses
        /\ HasRoom
        /\ Called("init", "StructMemberVariable",
                  StructMemberVariable_init(variable, D, "hls_register", struct_name, nextId),
                  struct_name, 0)

\* StructMemberVariable.from_variable(variable, converter, struct_name=...)
StructMemberFromVariable ==
    \E D \in Dialects, struct_name \in StructNames :
        /\ variable.cls \in TensorClasses
        /\ HasRoom
        /\ Called("from_variable", "StructMemberVariable",
                  StructMemberVariable_from_variable(variable, D, "partition", struct_name, nextId),
                  struct_name, 0)

\* StreamVariable(variable, converter, n_pack, depth)
StreamInit ==
    \E D \in Dialects, n_pack \in StreamPacks, depth \in ExplicitDepths :
        /\ variable.cls \in TensorClasses
        /\ HasRoom
        /\ Called("init", "StreamVariable",
                  StreamVariable_init(variable, D, n_pack, depth, nextId), None, depth)

\* StreamVariable.from_variable(variable, converter, n_pack, depth)
StreamFromVariable ==
    \E D \in Dialects, n_pack \in StreamPacks, depth \in ExplicitDepths :
        /\ variable.cls \in TensorClasses
        /\ HasRoom
        /\ Called("from_variable", "StreamVariable",
                  StreamVariable_from_variable(variable, D, n_pack, depth, nextId), None, depth)

\* StaticWeightVariable.from_variable(variable, converter)
StaticWeightFromVariable ==
    \E D \in Dialects :
        /\ variable.cls \in WeightClasses
        /\ HasRoom
        /\ Called("from_variable", "StaticWeightVariable",
                  StaticWeightVariable_from_variable(variable, D, nextId), None, 0)

\* BramWeightVariable.from_variable(variable)
BramWeightFromVariable ==
    /\ variable.cls \in WeightClasses
    /\ HasRoom
    /\ Called("from_variable", "BramWeightVariable",
              BramWeightVariable_from_variable(variable, nextId), None, 0)

\* definition_cpp(name_suffix, as_reference) of the variable in hand.
RenderVariable ==
    \E name_suffix \in Suffixes, as_reference \in BOOLEAN :
        /\ variable.cls \in RenderableClasses
        /\ rendered' = [of |-> "variable",
                        text |-> Variable_definition_cpp(variable, name_suffix, as_reference),
                        name_suffix |-> name_suffix]
        /\ UNCHANGED <<nextId, precision, pcall, hlstype, tcall, variable, vcall, legacy_str>>

Next ==
    \/ UpstreamPrecision
    \/ ConvertPrecision
    \/ RenderPrecision
    \/ UpstreamType
    \/ ConvertType
    \/ RenderType
    \/ UpstreamTensor
    \/ UpstreamWeight
    \/ ArrayFromVariable
    \/ StructMemberInit
    \/ StructMemberFromVariable
    \/ StreamInit
    \/ StreamFromVariable
    \/ StaticWeightFromVariable
    \/ BramWeightFromVariable
    \/ RenderVariable

Spec == Init /\ [][Next]_vars

\* ------------------------------------------------------------- properties
RecognisedKinds == {"Integer", "Fixed", "Xnor", "Exponent"}

\* C1: a converter turns an abstract precision of one of the four kinds into
\* its own dialect's precision of that kind, and applied to a precision that
\* already carries its own dialect tag (the result of an earlier conversion by
\* it) it returns that very object, so both render the same text.
C1_ConvertIdempotent ==
    /\ (pcall.conv \in Dialects /\ pcall.arg.tag = "" /\ pcall.arg.kind \in RecognisedKinds) =>
        /\ ~pcall.raised
        /\ pcall.ret.tag = pcall.conv
        /\ pcall.ret.kind = pcall.arg.kind
    /\ (pcall.conv \in Dialects /\ pcall.arg.tag = pcall.conv) =>
        /\ ~pcall.raised
        /\ pcall.ret = pcall.arg
        /\ precision = pcall.arg
        /\ definition_cpp(pcall.ret) = definition_cpp(pcall.arg)

C1_Witness ==
    /\ pcall.conv = "AC" /\ pcall.arg.tag = "AC" /\ pcall.arg.kind = "Fixed"
    /\ ~IsNone(pcall.arg.rounding_mode)
    /\ pcall.ret = pcall.arg

\* C2: a converter raises, returns nothing and leaves the precision in hand
\* as it was, when its input is neither one of the four abstract kinds nor
\* already tagged with the converter's own dialect; a precision tagged with the
\* other dialect is such an input.
C2_UnsupportedRejected ==
    (/\ pcall.conv \in Dialects
     /\ ~(pcall.arg.tag = "" /\ pcall.arg.kind \in RecognisedKinds)
     /\ pcall.arg.tag # pcall.conv) =>
        /\ pcall.raised
        /\ pcall.ret = NoPrec
        /\ precision = pcall.arg

C2_Witness ==
    /\ pcall.conv = "AC" /\ pcall.arg.tag = "AP" /\ pcall.arg.kind = "Fixed"
    /\ pcall.raised

\* The text the Fixed format of dialect p.tag prescribes for p.
C3_Expected(p) ==
    LET pfx == IF p.tag = "AP" THEN "AP_" ELSE "AC_"
        head == IF p.tag = "AP"
                THEN (IF p.signed THEN <<"ap_", "fixed", "<">> ELSE <<"ap_", "u", "fixed", "<">>)
                ELSE <<"ac_fixed", "<">>
    IN head \o <<StrInt(p.width), ",", StrInt(p.integer)>>
        \o (IF p.tag = "AC" THEN <<",", StrBoolLower(p.signed)>> ELSE <<>>)
        \o (IF IsNone(p.rounding_mode) THEN <<>> ELSE <<",", pfx, p.rounding_mode[1]>>)
        \o (IF IsNone(p.saturation_mode) THEN <<>> ELSE <<",", pfx, p.saturation_mode[1]>>)
        \o (IF IsNone(p.saturation_bits) THEN <<>> ELSE <<",", StrInt(p.saturation_bits[1])>>)
        \o <<">">>

\* No empty token, no "None", and every comma stands between two arguments.
C3_WellFormed(text) ==
    \A i \in 1..Len(text) :
        /\ text[i] \notin {"", "None"}
        /\ text[i] = "," => (i > 1 /\ text[i-1] \notin {",", "<"}
                             /\ i < Len(text) /\ text[i+1] \notin {",", ">"})

\* C3: a Fixed precision renders width, integer, (signed flag, AC only),
\* rounding mode, saturation mode, saturation bits in that order, the unset
\* ones left out: no empty token, no trailing comma, no "None"; the mode tokens
\* carry AP_ or AC_.
C3_FixedArgumentList ==
    (rendered.of = "precision" /\ precision.kind = "Fixed") =>
        /\ rendered.text = C3_Expected(precision)
        /\ C3_WellFormed(rendered.text)

C3_Witness ==
    /\ rendered.of = "precision" /\ precision.kind = "Fixed" /\ precision.tag = "AP"
    /\ IsNone(precision.rounding_mode)
    /\ ~IsNone(precision.saturation_mode)
    /\ ~IsNone(precision.saturation_bits)
    /\ rendered.text = <<"ap_", "fixed", "<", StrInt(precision.width), ",",
                         StrInt(precision.integer), ",", "AP_", "SAT", ",", "0", ">">>

\* p's rendering in dialect D: the text of D's leaf renderer for p's kind
DialectText(D, p) == definition_cpp(convert(D, p, 0).ret)

\* C4: the struct of a compressed type converted for dialect D has the fields
\* row_index, col_index, weight in that order, row_index and col_index typed by
\* index_precision's rendering in D and weight by precision's rendering in D.
C4_CompressedFields ==
    (/\ rendered.of = "type" /\ hlstype.cls = "HLSCompressedType"
     /\ ~tcall.raised /\ tcall.ret = hlstype) =>
        rendered.text =
            <<"typedef struct ", hlstype.name, " {">>
              \o DialectText(tcall.D, tcall.arg.index_precision) \o <<" row_index;">>
              \o DialectText(tcall.D, tcall.arg.index_precision) \o <<" col_index;">>
              \o DialectText(tcall.D, tcall.arg.precision) \o <<" weight; } ", hlstype.name, ";\n">>

\* The number a rendered decimal token denotes.
Num(tok) == CHOOSE n \in 0..(MaxElem + MaxPack + MaxWidth + MaxDim + 2) : StrInt(n) = tok

\* The array length a packed typedef declares: the value of the constant
\* expression between ", " and "> ".
RenderedLength(text) ==
    LET k == Len(text) IN
    IF text[k-4] = "/" THEN Num(text[k-5]) \div Num(text[k-3])
    ELSE Num(text[k-5]) * Num(text[k-3])

\* C5: a packed type converted by the type converter renders the array length
\* n_elem / n_pack when the input type's unpack is true and n_elem * n_pack
\* when it is false.
C5_PackedLength ==
    (/\ rendered.of = "type" /\ hlstype.cls = "HLSPackedType"
     /\ ~tcall.raised /\ tcall.ret = hlstype) =>
        RenderedLength(rendered.text) =
            (IF tcall.arg.unpack THEN tcall.arg.n_elem \div tcall.arg.n_pack
             ELSE tcall.arg.n_elem * tcall.arg.n_pack)

\* C6: the struct of an exponent type converted for dialect D has the fields
\* sign, weight in that order, sign typed by D's Xnor leaf renderer and weight
\* by the wrapped precision's rendering in D.
C6_ExponentFields ==
    (/\ rendered.of = "type" /\ hlstype.cls = "HLSExponentType"
     /\ ~tcall.raised /\ tcall.ret = hlstype) =>
        rendered.text =
            <<"typedef struct ", hlstype.name, " {">>
              \o definition_cpp(XnorPrecisionType(tcall.D, 0)) \o <<" sign;">>
              \o DialectText(tcall.D, tcall.arg.precision) \o <<" weight; } ", hlstype.name, ";\n">>

\* The last call built a new variable of class cls (it was a constructor call,
\* or a from_variable call on a variable of another class).
Constructing(cls) ==
    /\ vcall.cls = cls
    /\ ~(vcall.op = "from_variable" /\ vcall.arg.cls = cls)

\* C7: every from_variable returns its input, the same instance, when the
\* input is already an instance of the target class.
C7_FromVariableIdempotent ==
    (vcall.op = "from_variable" /\ vcall.arg.cls = vcall.cls) =>
        /\ ~vcall.raised
        /\ vcall.ret = vcall.arg

\* C8: a stream variable built with depth 0 (no explicit depth) over a shape
\* whose last dimension is not zero stores product(shape) // shape[-1]; built
\* with a non-zero depth it stores that depth.
C8_StreamDepth ==
    (Constructing("StreamVariable") /\ ~vcall.raised) =>
        LET shape == vcall.arg.shape
            last == shape[Len(shape)]
        IN /\ vcall.ret.pragma.name = "stream"
           /\ vcall.depth # 0 => vcall.ret.pragma.depth = vcall.depth
           /\ (vcall.depth = 0 /\ last # 0) =>
                  vcall.ret.pragma.depth = np_prod(shape) \div last

C8_Witness ==
    /\ Constructing("StreamVariable") /\ ~vcall.raised
    /\ vcall.depth = 0
    /\ vcall.arg.shape = <<1, 2>>
    /\ vcall.ret.pragma = [name |-> "stream", depth |-> 1]
    /\ variable = vcall.ret

\* C9: building a stream variable with no explicit depth over a shape whose
\* last dimension is zero fails and yields no variable.
C9_DegenerateShapeRejected ==
    (/\ Constructing("StreamVariable")
     /\ vcall.depth = 0
     /\ Len(vcall.arg.shape) > 0
     /\ vcall.arg.shape[Len(vcall.arg.shape)] = 0) =>
        /\ vcall.raised
        /\ vcall.ret = NoVar

\* C10: building a struct-member array with a missing or empty struct_name
\* fails and yields no variable; with a struct_name supplied the variable is
\* named struct_name.member_name and its declaration uses the bare member name.
C10_StructNameRequired ==
    /\ Constructing("StructMemberVariable") =>
        /\ (IsNone(vcall.struct_name) \/ vcall.struct_name = Some("")) =>
               (vcall.raised /\ vcall.ret = NoVar)
        /\ (~IsNone(vcall.struct_name) /\ ~vcall.raised) =>
               /\ vcall.ret.member_name = vcall.arg.name
               /\ vcall.ret.name = vcall.struct_name[1] \o "." \o vcall.arg.name
    /\ (rendered.of = "variable" /\ variable.cls = "StructMemberVariable") =>
        rendered.text = <<variable.type.name, " ", variable.member_name,
                          rendered.name_suffix, "[">> \o size_cpp(variable) \o <<"]">>

====
